---- MODULE Spec2Model ----
(***************************************************************************)
(* A model of dedupe.py: the hash-deferred duplicate detector find_dupes,  *)
(* the consumer loop dedupe, and the link replacement link().              *)
(*                                                                         *)
(* The file system is a table of directory entries (path -> entry) over    *)
(* two directories, with a mount table (directory -> device) and an inode  *)
(* table ((device, inode) -> content).  A path is <<directory, name>>.     *)
(***************************************************************************)
EXTENDS Integers, Sequences, FiniteSets, TLC

\* ------------------------------------------------------------------ bounds

\* The longest candidate sequence the walker yields in one pass.
MaxWalk == 3

\* ------------------------------------------------------- program constants

ACTION_PRINT == "print"
ACTION_SYMLINK == "symlink"
ACTION_HARDLINK == "hardlink"
ACTION_DELETE == "delete"
ACTION_DEFAULT == ACTION_PRINT
ACTION_CHOICES == {ACTION_PRINT, ACTION_SYMLINK, ACTION_HARDLINK, ACTION_DELETE}

\* ------------------------------------------------------------ file system

Dirs == {"d1", "d2"}
Devs == {1, 2}
FileNames == {"a", "b"}

\* File contents are byte strings; a file's size is the length of its content.
Contents == {<<0>>, <<1>>, <<0, 0>>}

HexDigits == <<"0", "1", "2", "3", "4", "5", "6", "7",
               "8", "9", "a", "b", "c", "d", "e", "f">>

\* hasher.update(chunk), byte by byte: an injective fold of the bytes read.
RECURSIVE update(_, _)
update(h, chunk) ==
    IF chunk = <<>> THEN h ELSE update((2 * h + Head(chunk)) % 16, Tail(chunk))

\* A slip in the hashing: the digest is taken of a hasher that was fed nothing.
hexdigest_of_nothing(content) == HexDigits[update(1, <<>>) + 1]

\* hasher.hexdigest() of a hasher that was fed `content`.
hexdigest(content) == HexDigits[update(1, content) + 1]

HashNames == {hexdigest(c) : c \in Contents}

Names == FileNames \cup HashNames
Paths == Dirs \X Names

\* os.path.join(dir, name) and os.path.split(path)[0]
join(dir, name) == <<dir, name>>
dirname(path) == path[1]

\* The paths a walk may meet at the start of a pass.
BasePaths == {join("d1", "a"), join("d1", "b"), join("d2", "a")}

NoPath == <<"", "">>
NoEntry == [kind |-> "none", ino |-> 0, target |-> NoPath]
File(i) == [kind |-> "file", ino |-> i, target |-> NoPath]
Directory == [kind |-> "dir", ino |-> 0, target |-> NoPath]
Symlink(t) == [kind |-> "symlink", ino |-> 0, target |-> t]

VARIABLES
    fs,         \* directory entries: [Paths -> entry]
    mounts,     \* [Dirs -> Devs]: the device each directory is on
    data,       \* inode table: [<<dev, ino>> -> content]
    options,    \* [action, min_size]
    buckets,    \* device_size_info_dict of find_dupes
    trace,      \* history: one record per candidate find_dupes has examined
    outs,       \* history: the triples find_dupes has yielded, in order
    hashCalls,  \* history: [<<dev, ino>> -> number of get_file_hash calls]
    pc,         \* where the run of dedupe() is
    pending,    \* the triple the body of dedupe's loop is working on
    error,      \* the exception that ended the run, "none" while there is none
    reported,   \* the lines dedupe has logged or printed, in order
    call        \* one invocation of link(): its arguments and its position

vars == <<fs, mounts, data, options, buckets, trace, outs, hashCalls,
          pc, pending, error, reported, call>>

\* The entry a path leads to, following a symbolic link (os.stat, open and
\* os.path.isfile all follow links).  Links made by link() point at regular
\* files, so one level is followed; a link to a link does not resolve.
resolve(f, path) ==
    IF f[path].kind = "symlink"
    THEN IF f[path].target \in Paths /\ f[f[path].target].kind \in {"file", "dir"}
         THEN f[path].target
         ELSE NoPath
    ELSE IF f[path].kind = "none" THEN NoPath ELSE path

\* os.path.isfile(fullpath)
isfile(f, path) == resolve(f, path) # NoPath /\ f[resolve(f, path)].kind = "file"

\* os.stat(fullpath): st_dev, st_ino, st_size of a regular file
stat(f, m, d, path) ==
    LET r == resolve(f, path)
        dev == m[dirname(r)]
    IN  [st_dev |-> dev, st_ino |-> f[r].ino, st_size |-> Len(d[<<dev, f[r].ino>>])]

\* The bytes open(fname, "rb") reads.
content(f, m, d, path) ==
    LET r == resolve(f, path) IN d[<<m[dirname(r)], f[r].ino>>]

\* FileInfo(name, dev, inode)
FileInfo(name, dev, inode) == [name |-> name, dev |-> dev, inode |-> inode]
NoInfo == FileInfo(NoPath, 0, 0)

\* ---------------------------------------------------------------- buckets

\* A value of device_size_info_dict: either one FileInfo (isdict = FALSE) or a
\* dict hash -> FileInfo (isdict = TRUE), told apart by isinstance(.., dict).
EmptyDict == [h \in {} |-> NoInfo]
Unhashed(info) == [isdict |-> FALSE, info |-> info, map |-> EmptyDict]
Hashed(map) == [isdict |-> TRUE, info |-> NoInfo, map |-> map]

\* d[k] = v on a dict
setitem(d, k, v) == [x \in DOMAIN d \cup {k} |-> IF x = k THEN v ELSE d[x]]

\* size_fileinfo_dict = device_size_info_dict; the key looked up is file_size.
bucket_key(st) == st.st_size

\* A slip in the inode checks: the comparison is left out, no inode is known.
seen_inode_never(hash_to_fileinfo, st) == FALSE

same_inode_never(file_info, st) == FALSE

\* any(fileinfo.inode == stat.st_ino for fileinfo in hash_to_fileinfo.values())
seen_inode(hash_to_fileinfo, st) ==
    \E h \in DOMAIN hash_to_fileinfo : hash_to_fileinfo[h].inode = st.st_ino

\* file_info.inode == stat.st_ino
same_inode(file_info, st) == file_info.inode = st.st_ino

\* get_file_hash(fname), when the file can be read
get_file_hash(f, m, d, fname) == hexdigest(content(f, m, d, fname))

\* The file a name leads to, as the key of the inode table.
file_of(f, m, path) ==
    LET r == resolve(f, path) IN <<m[dirname(r)], f[r].ino>>

\* One more call of get_file_hash on each name of `names`.
RECURSIVE counted(_, _)
counted(calls, names) ==
    IF names = <<>> THEN calls
    ELSE LET k == file_of(fs, mounts, Head(names))
         IN  counted([calls EXCEPT ![k] = @ + 1], Tail(names))

\* this_fileinfo = FileInfo(fullpath, this_device, stat.st_ino)
this_fileinfo(fullpath) ==
    LET st == stat(fs, mounts, data, fullpath)
    IN  FileInfo(fullpath, st.st_dev, st.st_ino)

\* The history record of one examined candidate.
Examined(fullpath, outcome, hashed) ==
    IF isfile(fs, fullpath)
    THEN LET st == stat(fs, mounts, data, fullpath)
         IN  [path |-> fullpath, dev |-> st.st_dev, ino |-> st.st_ino,
              size |-> st.st_size, content |-> content(fs, mounts, data, fullpath),
              outcome |-> outcome, hashed |-> hashed]
    ELSE [path |-> fullpath, dev |-> 0, ino |-> 0, size |-> 0, content |-> <<>>,
          outcome |-> outcome, hashed |-> hashed]

\* ------------------------------------------------------------- find_dupes

\* The walker yields fullpath: the next iteration of the loop over the names
\* the walk finds.
Yields(fullpath) ==
    /\ pc = "walk"
    /\ Len(trace) < MaxWalk
    /\ fs[fullpath].kind # "none"

\* A candidate that is examined and changes nothing (a `continue`).
Continue(fullpath, outcome) ==
    /\ trace' = Append(trace, Examined(fullpath, outcome, <<>>))
    /\ UNCHANGED <<fs, mounts, data, options, buckets, outs, hashCalls,
                   pc, pending, error, reported, call>>

\* A slip in the generator: the triple is collected and the pass goes on, as
\* if find_dupes built a list.
Yield_keeps_running(original, duplicate, hash) ==
    /\ outs' = Append(outs, <<original, duplicate, hash>>)
    /\ pending' = <<original, duplicate, hash>>
    /\ pc' = pc

\* yield (original, duplicate, hash): control passes to the body of dedupe's loop.
Yield(original, duplicate, hash) ==
    /\ outs' = Append(outs, <<original, duplicate, hash>>)
    /\ pending' = <<original, duplicate, hash>>
    /\ pc' = "body"

\* get_file_hash raises inside the generator: nothing catches it in find_dupes,
\* and dedupe's try covers the loop body only, so the run ends.
Raises(fullpath, hashed) ==
    /\ trace' = Append(trace, Examined(fullpath, "ioerror", hashed))
    /\ hashCalls' = counted(hashCalls, hashed)
    /\ pc' = "raised"
    /\ error' = "IOError"
    /\ UNCHANGED <<fs, mounts, data, options, buckets, outs, pending, reported, call>>

\* if not os.path.isfile(fullpath): continue
SkipNotFile(fullpath) ==
    /\ Yields(fullpath)
    /\ ~isfile(fs, fullpath)
    /\ Continue(fullpath, "notfile")

\* if file_size < options.min_size: continue
SkipSmall(fullpath) ==
    /\ Yields(fullpath)
    /\ isfile(fs, fullpath)
    /\ stat(fs, mounts, data, fullpath).st_size < options.min_size
    /\ Continue(fullpath, "small")

\* A slip in the filters: the size is not compared with options.min_size.
Candidate_ignores_min_size(fullpath) ==
    /\ Yields(fullpath)
    /\ isfile(fs, fullpath)

\* The candidate passed both filters.
Candidate(fullpath) ==
    /\ Yields(fullpath)
    /\ isfile(fs, fullpath)
    /\ stat(fs, mounts, data, fullpath).st_size >= options.min_size

\* else: size_fileinfo_dict[file_size] = this_fileinfo
NoteSize(fullpath) ==
    LET st == stat(fs, mounts, data, fullpath) IN
    /\ Candidate(fullpath)
    /\ bucket_key(st) \notin DOMAIN buckets
    /\ buckets' = setitem(buckets, bucket_key(st), Unhashed(this_fileinfo(fullpath)))
    /\ trace' = Append(trace, Examined(fullpath, "noted", <<>>))
    /\ UNCHANGED <<fs, mounts, data, options, outs, hashCalls,
                   pc, pending, error, reported, call>>

\* info_or_dict is just a FileInfo, and it is this file: continue
SameFile(fullpath) ==
    LET st == stat(fs, mounts, data, fullpath) IN
    /\ Candidate(fullpath)
    /\ bucket_key(st) \in DOMAIN buckets
    /\ ~buckets[bucket_key(st)].isdict
    /\ same_inode(buckets[bucket_key(st)].info, st)
    /\ Continue(fullpath, "samefile")

\* info_or_dict is just a FileInfo of another inode: hash both, turn the entry
\* into a dict, then yield or insert.
FirstCollision(fullpath) ==
    LET st == stat(fs, mounts, data, fullpath)
        file_info == buckets[bucket_key(st)].info
        this_hash == get_file_hash(fs, mounts, data, fullpath)
        existing_file_hash == get_file_hash(fs, mounts, data, file_info.name)
        hashed == <<fullpath, file_info.name>>
    IN
    /\ Candidate(fullpath)
    /\ bucket_key(st) \in DOMAIN buckets
    /\ ~buckets[bucket_key(st)].isdict
    /\ ~same_inode(file_info, st)
    /\ hashCalls' = counted(hashCalls, hashed)
    /\ UNCHANGED <<fs, mounts, data, options, error, reported, call>>
    /\ \/ /\ existing_file_hash = this_hash
          /\ buckets' = setitem(buckets, bucket_key(st),
                                Hashed(setitem(EmptyDict, existing_file_hash, file_info)))
          /\ trace' = Append(trace, Examined(fullpath, "yielded", hashed))
          /\ Yield(file_info, this_fileinfo(fullpath), this_hash)
       \/ /\ existing_file_hash # this_hash
          /\ buckets' = setitem(buckets, bucket_key(st),
                                Hashed(setitem(setitem(EmptyDict, existing_file_hash, file_info),
                                               this_hash, this_fileinfo(fullpath))))
          /\ trace' = Append(trace, Examined(fullpath, "inserted", hashed))
          /\ UNCHANGED <<outs, pending, pc>>

\* The same branch when a file cannot be read: line 161 raises, or line 161
\* returns and line 164 raises; the dict assignment of line 165 is not reached.
FirstCollisionRaises(fullpath) ==
    LET st == stat(fs, mounts, data, fullpath)
        file_info == buckets[bucket_key(st)].info
    IN
    /\ Candidate(fullpath)
    /\ bucket_key(st) \in DOMAIN buckets
    /\ ~buckets[bucket_key(st)].isdict
    /\ ~same_inode(file_info, st)
    /\ \/ Raises(fullpath, <<fullpath>>)
       \/ Raises(fullpath, <<fullpath, file_info.name>>)

\* we've already hashed files for this size, and one of them has this inode
AlreadyDeduplicated(fullpath) ==
    LET st == stat(fs, mounts, data, fullpath) IN
    /\ Candidate(fullpath)
    /\ bucket_key(st) \in DOMAIN buckets
    /\ buckets[bucket_key(st)].isdict
    /\ seen_inode(buckets[bucket_key(st)].map, st)
    /\ Continue(fullpath, "already")

\* A slip in the lookup: the file just hashed is stored under its hash also
\* when the hash is already a key, so it replaces the first-seen file.
HashAndLookup_overwrites(fullpath) ==
    LET st == stat(fs, mounts, data, fullpath)
        hash_to_fileinfo == buckets[bucket_key(st)].map
        this_hash == get_file_hash(fs, mounts, data, fullpath)
    IN
    /\ Candidate(fullpath)
    /\ bucket_key(st) \in DOMAIN buckets
    /\ buckets[bucket_key(st)].isdict
    /\ ~seen_inode(hash_to_fileinfo, st)
    /\ hashCalls' = counted(hashCalls, <<fullpath>>)
    /\ UNCHANGED <<fs, mounts, data, options, error, reported, call>>
    /\ buckets' = setitem(buckets, bucket_key(st),
                          Hashed(setitem(hash_to_fileinfo, this_hash,
                                         this_fileinfo(fullpath))))
    /\ \/ /\ this_hash \in DOMAIN hash_to_fileinfo
          /\ trace' = Append(trace, Examined(fullpath, "yielded", <<fullpath>>))
          /\ Yield(hash_to_fileinfo[this_hash], this_fileinfo(fullpath), this_hash)
       \/ /\ this_hash \notin DOMAIN hash_to_fileinfo
          /\ trace' = Append(trace, Examined(fullpath, "inserted", <<fullpath>>))
          /\ UNCHANGED <<outs, pending, pc>>

\* we've already hashed files for this size: hash this one, yield or insert
HashAndLookup(fullpath) ==
    LET st == stat(fs, mounts, data, fullpath)
        hash_to_fileinfo == buckets[bucket_key(st)].map
        this_hash == get_file_hash(fs, mounts, data, fullpath)
    IN
    /\ Candidate(fullpath)
    /\ bucket_key(st) \in DOMAIN buckets
    /\ buckets[bucket_key(st)].isdict
    /\ ~seen_inode(hash_to_fileinfo, st)
    /\ hashCalls' = counted(hashCalls, <<fullpath>>)
    /\ UNCHANGED <<fs, mounts, data, options, error, reported, call>>
    /\ \/ /\ this_hash \in DOMAIN hash_to_fileinfo
          /\ trace' = Append(trace, Examined(fullpath, "yielded", <<fullpath>>))
          /\ Yield(hash_to_fileinfo[this_hash], this_fileinfo(fullpath), this_hash)
          /\ UNCHANGED buckets
       \/ /\ this_hash \notin DOMAIN hash_to_fileinfo
          /\ buckets' = setitem(buckets, bucket_key(st),
                                Hashed(setitem(hash_to_fileinfo, this_hash,
                                               this_fileinfo(fullpath))))
          /\ trace' = Append(trace, Examined(fullpath, "inserted", <<fullpath>>))
          /\ UNCHANGED <<outs, pending, pc>>

\* The same branch when the file cannot be read: line 146 raises.
HashAndLookupRaises(fullpath) ==
    LET st == stat(fs, mounts, data, fullpath) IN
    /\ Candidate(fullpath)
    /\ bucket_key(st) \in DOMAIN buckets
    /\ buckets[bucket_key(st)].isdict
    /\ ~seen_inode(buckets[bucket_key(st)].map, st)
    /\ Raises(fullpath, <<fullpath>>)

\* The walk is exhausted: the generator returns and dedupe's loop ends.
Exhausted ==
    /\ pc = "walk"
    /\ pc' = "done"
    /\ UNCHANGED <<fs, mounts, data, options, buckets, trace, outs, hashCalls,
                   pending, error, reported, call>>

\* ------------------------------------------------- file system primitives

\* os.link(src, dst): a new name for src's inode.  errno is "" on success.
os_link(f, m, src, dst) ==
    IF f[src].kind = "none" THEN [errno |-> "ENOENT", fs |-> f]
    ELSE IF f[dst].kind # "none" THEN [errno |-> "EEXIST", fs |-> f]
    ELSE IF f[src].kind # "file" THEN [errno |-> "EPERM", fs |-> f]
    ELSE IF m[dirname(src)] # m[dirname(dst)] THEN [errno |-> "EXDEV", fs |-> f]
    ELSE [errno |-> "", fs |-> [f EXCEPT ![dst] = File(f[src].ino)]]

\* relsymlink(a, b): os.symlink(os.path.relpath(a, dir of b), b).  The relative
\* target, read from the directory of b, names a; a need not exist.
relsymlink(f, m, a, b) ==
    IF f[b].kind # "none" THEN [errno |-> "EEXIST", fs |-> f]
    ELSE [errno |-> "", fs |-> [f EXCEPT ![b] = Symlink(a)]]

\* os.rename(src, dst) within one directory: dst is replaced in one step.  When
\* src and dst are names of the same inode, rename does nothing and succeeds.
os_rename(f, m, src, dst) ==
    IF f[src].kind = "none" THEN [errno |-> "ENOENT", fs |-> f]
    ELSE IF f[dst].kind = "dir" /\ f[src].kind # "dir" THEN [errno |-> "EISDIR", fs |-> f]
    ELSE IF f[src].kind = "dir" /\ f[dst].kind \notin {"dir", "none"}
         THEN [errno |-> "ENOTDIR", fs |-> f]
    ELSE IF /\ f[src].kind = "file"
            /\ f[dst].kind = "file"
            /\ f[src].ino = f[dst].ino
            /\ m[dirname(src)] = m[dirname(dst)]
         THEN [errno |-> "", fs |-> f]
    ELSE [errno |-> "", fs |-> [f EXCEPT ![dst] = f[src], ![src] = NoEntry]]

\* os.unlink(path)
os_unlink(f, path) ==
    IF f[path].kind = "none" THEN [errno |-> "ENOENT", fs |-> f]
    ELSE [errno |-> "", fs |-> [f EXCEPT ![path] = NoEntry]]

\* ------------------------------------------------------------------ link()

NoCall == [pc |-> "idle", linkfn |-> "none", patha |-> NoPath, pathb |-> NoPath,
           hash |-> "", temp_name |-> NoPath, errno |-> "", before |-> NoEntry]

\* temp_name = os.path.join(os.path.split(pathb)[0], hash)
temp_name(pathb, hash) == join(dirname(pathb), hash)

\* linkfn(patha, temp_name): os.link for hardlink(), relsymlink for symlink()
linkfn(which, f, m, patha, temp) ==
    IF which = "os.link" THEN os_link(f, m, patha, temp) ELSE relsymlink(f, m, patha, temp)

\* A slip in the cleanup: the name removed is pathb, not temp_name.
rename_failed_unlinks_pathb(f, temp) == os_unlink(f, call.pathb).fs

\* A slip in the cleanup: the failure is passed on and nothing is removed.
rename_failed_keeps_temp(f, temp) == f

\* What link() does when the rename raised OSError: os.unlink(temp_name); raise
rename_failed(f, temp) == os_unlink(f, temp).fs

\* link(linkfn, patha, pathb, hash) is entered.
LinkCall(which, patha, pathb, hash) ==
    /\ call.pc = "idle"
    /\ call' = [pc |-> "linkfn", linkfn |-> which, patha |-> patha, pathb |-> pathb,
                hash |-> hash, temp_name |-> temp_name(pathb, hash), errno |-> "",
                before |-> fs[pathb]]
    /\ UNCHANGED <<fs, mounts, data, options, buckets, trace, outs, hashCalls,
                   pc, pending, error, reported>>

\* linkfn(patha, temp_name): outside the try, so a failure leaves link() at once.
LinkFn ==
    LET r == linkfn(call.linkfn, fs, mounts, call.patha, call.temp_name) IN
    /\ call.pc = "linkfn"
    /\ fs' = r.fs
    /\ call' = [call EXCEPT !.pc = IF r.errno = "" THEN "rename" ELSE "raised",
                            !.errno = r.errno]
    /\ UNCHANGED <<mounts, data, options, buckets, trace, outs, hashCalls,
                   pc, pending, error, reported>>

\* linkfn fails for a reason the directory entries do not show (permissions, I/O).
LinkFnDenied ==
    /\ call.pc = "linkfn"
    /\ call' = [call EXCEPT !.pc = "raised", !.errno = "EACCES"]
    /\ UNCHANGED <<fs, mounts, data, options, buckets, trace, outs, hashCalls,
                   pc, pending, error, reported>>

\* os.rename(temp_name, pathb)
Rename ==
    LET r == os_rename(fs, mounts, call.temp_name, call.pathb) IN
    /\ call.pc = "rename"
    /\ fs' = r.fs
    /\ call' = [call EXCEPT !.pc = IF r.errno = "" THEN "returned" ELSE "except",
                            !.errno = r.errno]
    /\ UNCHANGED <<mounts, data, options, buckets, trace, outs, hashCalls,
                   pc, pending, error, reported>>

\* os.rename fails for a reason the directory entries do not show.
RenameDenied ==
    /\ call.pc = "rename"
    /\ call' = [call EXCEPT !.pc = "except", !.errno = "EACCES"]
    /\ UNCHANGED <<fs, mounts, data, options, buckets, trace, outs, hashCalls,
                   pc, pending, error, reported>>

\* except OSError: os.unlink(temp_name); raise
Except ==
    /\ call.pc = "except"
    /\ fs' = rename_failed(fs, call.temp_name)
    /\ call' = [call EXCEPT !.pc = "raised"]
    /\ UNCHANGED <<mounts, data, options, buckets, trace, outs, hashCalls,
                   pc, pending, error, reported>>

\* ---------------------------------------------------------------- dedupe()

\* A slip in the dispatch: the last branch replaces the duplicate as well as
\* logging it.
dedupe_body_links_on_report(action, f, fileinfo_a, fileinfo_b, hash) ==
    IF action \in {ACTION_SYMLINK, ACTION_HARDLINK}
    THEN [fs |-> f, raised |-> "TypeError", line |-> ""]
    ELSE IF action = ACTION_DELETE
         THEN [fs |-> f, raised |-> "", line |-> "delete not coded yet"]
    ELSE LET temp == temp_name(fileinfo_b.name, hash)
             linked == os_link(f, mounts, fileinfo_a.name, temp)
         IN  [fs |-> IF linked.errno = ""
                     THEN os_rename(linked.fs, mounts, temp, fileinfo_b.name).fs
                     ELSE f,
              raised |-> "", line |-> "duplicate"]

\* The body of dedupe's loop for one triple.  symlink() and hardlink() take
\* (patha, pathb, hash) and are called with two arguments, which raises
\* TypeError before either is entered; delete prints; anything else logs.
dedupe_body(action, f, fileinfo_a, fileinfo_b, hash) ==
    IF action = ACTION_SYMLINK THEN [fs |-> f, raised |-> "TypeError", line |-> ""]
    ELSE IF action = ACTION_HARDLINK THEN [fs |-> f, raised |-> "TypeError", line |-> ""]
    ELSE IF action = ACTION_DELETE
         THEN [fs |-> f, raised |-> "", line |-> "delete not coded yet"]
    ELSE [fs |-> f, raised |-> "", line |-> "duplicate"]

\* except OSError: log.error(..) and go on; any other exception leaves dedupe.
caught(raised) == raised = "OSError"

\* One iteration of `for fileinfo_a, fileinfo_b, hash in find_dupes(..)`.
Body ==
    LET r == dedupe_body(options.action, fs, pending[1], pending[2], pending[3]) IN
    /\ pc = "body"
    /\ fs' = r.fs
    /\ reported' = IF r.raised = "" THEN Append(reported, r.line)
                   ELSE IF caught(r.raised) THEN Append(reported, "Could not link")
                   ELSE reported
    /\ pc' = IF r.raised = "" \/ caught(r.raised) THEN "walk" ELSE "raised"
    /\ error' = IF r.raised = "" \/ caught(r.raised) THEN error ELSE r.raised
    /\ UNCHANGED <<mounts, data, options, buckets, trace, outs, hashCalls,
                   pending, call>>

\* ---------------------------------------------------------- specifications

\* The directory entries, mount table and inode table a pass may start from:
\* three names, of which any two may be names of one inode, on one device or
\* two, and at most one of which is not a regular file.
Tree(i2, i3, other) ==
    [p \in Paths |->
        IF p \notin BasePaths THEN NoEntry
        ELSE IF p = other THEN Directory
        ELSE IF p = join("d1", "a") THEN File(1)
        ELSE IF p = join("d1", "b") THEN File(i2)
        ELSE File(i3)]

Referenced(f, m) == {<<m[dirname(p)], f[p].ino>> : p \in {q \in Paths : f[q].kind = "file"}}

InitFiles ==
    \E dev2 \in Devs, i2 \in 1..2, i3 \in 1..3, other \in BasePaths \cup {NoPath} :
        /\ i3 <= i2 + 1
        /\ mounts = [d \in Dirs |-> IF d = "d1" THEN 1 ELSE dev2]
        /\ fs = Tree(i2, i3, other)
        /\ data \in [Referenced(fs, mounts) -> Contents]

InitPass ==
    /\ buckets = [s \in {} |-> Unhashed(NoInfo)]
    /\ trace = <<>>
    /\ outs = <<>>
    /\ hashCalls = [k \in DOMAIN data |-> 0]
    /\ pending = <<NoInfo, NoInfo, "">>
    /\ error = "none"
    /\ reported = <<>>

\* dedupe(options, *dirs) is entered.
Init ==
    /\ InitFiles
    /\ options \in [action : ACTION_CHOICES, min_size : {1, 2}]
    /\ InitPass
    /\ pc = "walk"
    /\ call = NoCall

Next ==
    \/ \E fullpath \in Paths :
          \/ SkipNotFile(fullpath)
          \/ SkipSmall(fullpath)
          \/ NoteSize(fullpath)
          \/ SameFile(fullpath)
          \/ FirstCollision(fullpath)
          \/ FirstCollisionRaises(fullpath)
          \/ AlreadyDeduplicated(fullpath)
          \/ HashAndLookup(fullpath)
          \/ HashAndLookupRaises(fullpath)
    \/ Body
    \/ Exhausted

Spec == Init /\ [][Next]_vars

\* link() called on its own, on a tree that may hold a name left in the
\* directory of pathb by an earlier run.
LinkInit ==
    /\ \E dev2 \in Devs, i2 \in 1..2, i3 \in 1..3, other \in BasePaths \cup {NoPath},
          left \in (Dirs \X HashNames) \cup {NoPath}, leftino \in 0..3 :
        /\ i3 <= i2 + 1
        /\ mounts = [d \in Dirs |-> IF d = "d1" THEN 1 ELSE dev2]
        /\ left = NoPath => leftino = 0
        /\ leftino # 0 =>
              <<mounts[dirname(left)], leftino>> \in Referenced(Tree(i2, i3, other), mounts)
        /\ fs = [p \in Paths |->
                   IF p # left THEN Tree(i2, i3, other)[p]
                   ELSE IF leftino = 0 THEN Directory ELSE File(leftino)]
        /\ data \in [Referenced(fs, mounts) -> Contents]
    /\ options = [action |-> ACTION_DEFAULT, min_size |-> 1]
    /\ InitPass
    /\ pc = "idle"
    /\ call = NoCall

LinkNext ==
    \/ \E which \in {"os.link", "relsymlink"}, patha \in BasePaths, pathb \in BasePaths,
          hash \in HashNames : LinkCall(which, patha, pathb, hash)
    \/ LinkFn
    \/ LinkFnDenied
    \/ Rename
    \/ RenameDenied
    \/ Except

LinkSpec == LinkInit /\ [][LinkNext]_vars

\* ------------------------------------------------------------------ claims

\* Candidate i of the pass was a regular file of at least the minimum size.
Passed(i) == trace[i].outcome \notin {"notfile", "small"}

\* Candidates i and k are the same file: same device and same inode.
SameDevIno(i, k) == trace[i].dev = trace[k].dev /\ trace[i].ino = trace[k].ino

\* The FileInfo find_dupes builds for candidate i.
InfoOf(i) == FileInfo(trace[i].path, trace[i].dev, trace[i].ino)

\* The triples yielded so far that name candidate i as original and j as duplicate.
Naming(i, j) == {n \in DOMAIN outs : outs[n][1] = InfoOf(i) /\ outs[n][2] = InfoOf(j)}

\* Triple n has been through the body of dedupe's loop.
Processed(n) == n < Len(outs) \/ pc # "body"

\* C1: at the end of a pass, any two candidates a (earlier) and b (later) on the
\* same device, of the same size and content and of different inodes, neither
\* sharing an inode with an earlier candidate, are named by exactly one yielded
\* triple, a as original and b as duplicate.
C1_ExactlyOnePair ==
    pc = "done" =>
        \A i \in DOMAIN trace : \A j \in DOMAIN trace :
            ( /\ i < j
              /\ Passed(i) /\ Passed(j)
              /\ trace[i].dev = trace[j].dev
              /\ trace[i].size = trace[j].size
              /\ trace[i].content = trace[j].content
              /\ trace[i].ino # trace[j].ino
              /\ \A k \in DOMAIN trace :
                    /\ (k < i /\ Passed(k)) => ~SameDevIno(k, i)
                    /\ (k < j /\ Passed(k)) => ~SameDevIno(k, j) )
            => Cardinality(Naming(i, j)) = 1

\* C2: no yielded triple pairs files of different devices.
C2_NoCrossDevicePair ==
    \A n \in DOMAIN outs : outs[n][1].dev = outs[n][2].dev

\* C3: get_file_hash is called at most once for each (device, inode) in a pass.
C3_HashedAtMostOnce ==
    \A k \in DOMAIN hashCalls : hashCalls[k] <= 1

\* C4: a candidate whose (device, inode) is that of an earlier candidate of the
\* pass is not hashed and is not yielded as a duplicate.
C4_SeenInodeSkipped ==
    \A j \in DOMAIN trace : \A i \in DOMAIN trace :
        (i < j /\ Passed(i) /\ Passed(j) /\ SameDevIno(i, j))
        => /\ \A n \in DOMAIN trace[j].hashed : trace[j].hashed[n] # trace[j].path
           /\ trace[j].outcome # "yielded"

\* The content pathb had when link() was entered.
OldContent == data[<<mounts[dirname(call.pathb)], call.before.ino>>]

\* link() was entered for an original and a duplicate: two different paths,
\* both regular files.
LinkingPair ==
    /\ call.pc # "idle"
    /\ call.patha # call.pathb
    /\ call.before.kind = "file"
    /\ isfile(fs, call.patha)

\* C5: in every state after link() is entered for a pair (so also wherever a
\* crash or a failure stops it), pathb resolves to a regular file whose content
\* is the content pathb had or the content of patha.
C5_DuplicateNeverMissing ==
    LinkingPair =>
        /\ isfile(fs, call.pathb)
        /\ content(fs, mounts, data, call.pathb)
              \in {OldContent, content(fs, mounts, data, call.patha)}

\* link() returned with pathb now a name of patha's inode, which it was not
\* before, and with other content than it had.
C5_Witness ==
    /\ LinkingPair
    /\ call.linkfn = "os.link"
    /\ call.pc = "returned"
    /\ fs[call.pathb] = File(fs[call.patha].ino)
    /\ call.before.ino # fs[call.patha].ino
    /\ OldContent # content(fs, mounts, data, call.patha)

\* C6: under the hardlink action, once a yielded triple (A, B, hash) has been
\* through dedupe's loop body, B is a name of A's inode.
C6_PairIsLinked ==
    options.action = ACTION_HARDLINK =>
        \A n \in DOMAIN outs :
            Processed(n) =>
                file_of(fs, mounts, outs[n][2].name) = <<outs[n][1].dev, outs[n][1].inode>>

\* C7: a failure of the replacement for one pair never ends the run: the only
\* exception that leaves dedupe is none raised by the loop body.
C7_FailureIsPerPair ==
    pc = "raised" => error = "IOError"

\* C8: when hashing fails for a candidate, the bucket map is left as it was and
\* the pass goes on with the next candidate.
C8_HashFailureSkipsCandidate ==
    [][(Len(trace') = Len(trace) + 1 /\ trace'[Len(trace')].outcome = "ioerror")
         => (buckets' = buckets /\ pc' = "walk")]_vars

\* C9: link(), entered for a pair, does not end with the failure of creating
\* the temporary link when the cause is that the temporary name exists.
C9_ExistingTempNameRetried ==
    LinkingPair => ~(call.pc = "raised" /\ call.errno = "EEXIST")

\* C10: in print mode no step of a run changes a directory entry.
C10_ReportOnlyChangesNothing ==
    [][options.action = ACTION_PRINT => fs' = fs]_vars

\* A print-mode run that reported a duplicate and ran to its end.
C10_Witness ==
    /\ options.action = ACTION_PRINT
    /\ pc = "done"
    /\ Len(outs) >= 1
    /\ Len(reported) = Len(outs)

\* C11: with the delete action the run stops as unsupported before anything is
\* done: no candidate is examined (so nothing is hashed and no pair is
\* processed) and the run does not end normally.
C11_DeleteFailsFast ==
    options.action = ACTION_DELETE => (trace = <<>> /\ pc # "done")

\* patha and pathb are two names of one regular file.
AlreadyLinked(f) ==
    /\ call.patha # call.pathb
    /\ isfile(f, call.patha)
    /\ isfile(f, call.pathb)
    /\ file_of(f, mounts, call.patha) = file_of(f, mounts, call.pathb)

\* link() was entered through hardlink() for a pair that was linked already:
\* pathb was a second name of patha's inode.
RelinkingPair ==
    /\ LinkingPair
    /\ call.linkfn = "os.link"
    /\ fs[call.patha].kind = "file"
    /\ call.before = fs[call.patha]
    /\ mounts[dirname(call.patha)] = mounts[dirname(call.pathb)]

\* C12: link() on a pair that is linked already ends with both paths names of
\* the original's file, as they were; and when it returns it has done nothing:
\* pathb has the entry it had and no temporary name is there.
C12_RelinkIsNoOp ==
    (RelinkingPair /\ call.pc \in {"returned", "raised"}) =>
        /\ AlreadyLinked(fs)
        /\ fs[call.pathb] = call.before
        /\ call.pc = "returned" => fs[call.temp_name] = NoEntry

\* Candidate k was neither filtered out nor skipped as an inode already seen.
Kept(k) == trace[k].outcome \in {"noted", "yielded", "inserted"}

\* info is the first kept candidate of the pass whose content hashes to h.
FirstSeen(info, h) ==
    \E i \in DOMAIN trace :
        /\ InfoOf(i) = info
        /\ hexdigest(trace[i].content) = h
        /\ \A k \in 1..(i - 1) : Kept(k) => trace[k].content # trace[i].content

\* Every key of every dict of the bucket map is still there after the step,
\* with the value it had.
KeysKept ==
    \A s \in DOMAIN buckets :
        buckets[s].isdict =>
            /\ s \in DOMAIN buckets'
            /\ buckets'[s].isdict
            /\ \A h \in DOMAIN buckets[s].map :
                  /\ h \in DOMAIN buckets'[s].map
                  /\ buckets'[s].map[h] = buckets[s].map[h]

ExaminedNow == Len(trace') = Len(trace) + 1

Now == trace'[Len(trace')]

C15_NoSharedInodeInDict ==
    \A s \in DOMAIN buckets :
        buckets[s].isdict =>
            \A h1 \in DOMAIN buckets[s].map : \A h2 \in DOMAIN buckets[s].map :
                h1 # h2 => buckets[s].map[h1].inode # buckets[s].map[h2].inode

\* A dict holds two files, and a candidate with the inode number of one of
\* them was met afterwards.
C15_Witness ==
    /\ trace # <<>>
    /\ trace[Len(trace)].outcome = "already"
    /\ \E s \in DOMAIN buckets :
          buckets[s].isdict /\ Cardinality(DOMAIN buckets[s].map) = 2

\* The candidates that passed the filters are all of one size, and any two of
\* them that are different files differ in content.
DistinctContents ==
    \A i \in DOMAIN trace : \A j \in DOMAIN trace :
        (Passed(i) /\ Passed(j)) =>
            /\ trace[i].size = trace[j].size
            /\ ~SameDevIno(i, j) => trace[i].content # trace[j].content

\* C16: when the candidates are of one size and of pairwise different content,
\* nothing is yielded and no file is hashed more than once.
C16_DistinctContentsNoPair ==
    DistinctContents =>
        /\ outs = <<>>
        /\ \A k \in DOMAIN hashCalls : hashCalls[k] <= 1

\* Two files of one size and different content were both hashed, once each,
\* and the pass ended.
C16_Witness ==
    /\ DistinctContents
    /\ pc = "done"
    /\ \E k1 \in DOMAIN hashCalls : \E k2 \in DOMAIN hashCalls :
          k1 # k2 /\ hashCalls[k1] = 1 /\ hashCalls[k2] = 1

\* The path is no regular file, or a file smaller than the minimum size.
Filtered(path) ==
    IF isfile(fs, path)
    THEN stat(fs, mounts, data, path).st_size < options.min_size
    ELSE TRUE

C18_CleanupBeforeRaise ==
    [][(call.pc = "except" /\ call'.pc = "raised") =>
         /\ fs'[call.temp_name] = NoEntry
         /\ fs'[call.pathb] = call.before]_vars

\* The rename failed (pathb is a directory) after the temporary link was
\* made, and link() has raised.
C18_Witness ==
    /\ call.pc = "raised"
    /\ call.errno = "EISDIR"
    /\ call.patha # call.pathb
    /\ fs[call.temp_name] = NoEntry

\* A candidate that was yielded as a duplicate.
IsYielded(r) == r.outcome = "yielded"

\* C19: the triples yielded are, in order, the candidates found to be
\* duplicates; a candidate is examined only when the loop body is not at work
\* on a triple and, when the action reports (print, delete), every triple
\* yielded so far has been reported; a directory entry changes only in the
\* loop body.
C19_PullByPull ==
    /\ [](/\ Len(SelectSeq(trace, IsYielded)) = Len(outs)
          /\ \A n \in DOMAIN outs :
                SelectSeq(trace, IsYielded)[n].path = outs[n][2].name)
    /\ [][ExaminedNow =>
            /\ pc = "walk"
            /\ options.action \in {ACTION_PRINT, ACTION_DELETE} =>
                  Len(reported) = Len(outs)]_vars
    /\ [][fs' # fs => pc = "body"]_vars

\* Two duplicates were found and reported one after the other, the second
\* found after the first was reported.
C19_Witness ==
    /\ options.action = ACTION_PRINT
    /\ Len(outs) = 2
    /\ Len(reported) = 2
    /\ outs[1][2] # outs[2][2]

\* C20: when link(), entered for a pair, has returned, the temporary name does
\* not exist.
C20_NoTempAfterReturn ==
    (LinkingPair /\ call.pc = "returned") => fs[call.temp_name] = NoEntry

====
